---- MODULE Spec2Model ----
(***************************************************************************)
(* caddy-log-to-mysql: the ingestion pipeline of src/main.rs.              *)
(*                                                                         *)
(* async_main reads the log file line by line, filters and decodes the     *)
(* "handled request" records, and spawns one write task per record under   *)
(* a counting semaphore (insertion_concurrency) and the read side of a     *)
(* read/write lock (insertion_busy); at end of input it takes the write    *)
(* side of the lock to wait for the tasks, then reports success.           *)
(*                                                                         *)
(* The runtime is tokio's current_thread runtime (main.rs:58): the driver  *)
(* and the write tasks share one thread, and a task gives the thread up    *)
(* only at an .await.  `running` is the task that is inside a synchronous  *)
(* section; every other step of the program waits for it.                  *)
(***************************************************************************)
EXTENDS Integers, Sequences, FiniteSets, TLC

\* Semaphore::new(50) in the source (main.rs:78); the model runs the same
\* code with a smaller semaphore so that saturation is reached by short files.
InsertionConcurrency == 2

\* Longest input file, in lines.
MaxLines == 3

\* Distinct byte contents of a well-formed "handled request" line.
EntryBytes == {"a", "b"}

VARIABLES
  file,            \* the input file of this run: a sequence of lines
  i,               \* lines consumed so far (enumerate index of the next line)
  pc,              \* position of async_main
  line_no,         \* line number of the record being dispatched (i + 1 of its line)
  file_id,         \* Option<String>: {} is None, {h} is Some(h)
  id_generated,    \* number of "generated file id" events (main.rs:109-110)
  permits,         \* available permits of insertion_concurrency
  readers,         \* read guards of insertion_busy that are held
  tasks,           \* line number -> the write task spawned for that line
  running,         \* line number of the task inside a synchronous section, 0 if none
  store,           \* rows of table logs, by key <<file_id, line_no>>
  store0,          \* the rows the table held when this run started
  rows_inserted,   \* Stats.rows_inserted
  rows_processed,  \* Stats.rows_processed
  pb_msg,          \* last progress message: <<rows_inserted, rows_processed>>
  errlog,          \* tracing::error! events: <<message, line_no>>
  exit_code,       \* -1 while the process runs, then 0 (Ok) or 1 (Err)
  rerun,           \* TRUE in a second run against the store the first run left
  prev             \* what the first run left behind (second run only)

vars == <<file, i, pc, line_no, file_id, id_generated, permits, readers, tasks,
          running, store, store0, rows_inserted, rows_processed, pb_msg, errlog,
          exit_code, rerun, prev>>

----------------------------------------------------------------------------
(* Lines.  A line is its kind (how the decoding steps of main.rs:88-120    *)
(* treat its bytes) and, for records, the bytes that tell two records      *)
(* apart.                                                                  *)

OtherKinds == {"io_error", "empty", "bad_json", "other_msg", "bad_entry"}

Line(k, b) == [kind |-> k, bytes |-> b]

Lines == {Line(k, "") : k \in OtherKinds} \cup {Line("entry", b) : b \in EntryBytes}

RECURSIVE FilesOfLen(_)
FilesOfLen(n) ==
  IF n = 0 THEN {<<>>}
  ELSE {Append(f, l) : f \in FilesOfLen(n - 1), l \in Lines}

Files == UNION {FilesOfLen(n) : n \in 0..MaxLines}

\* `let line = line?;` (main.rs:88): an unreadable line (I/O error, invalid UTF-8)
LineIsErr(l) == l.kind = "io_error"

\* line.is_empty() (main.rs:89)
IsEmpty(l) == l.kind = "empty"

\* a parser that takes every line for a JSON document
FromStrOk_lenient(l) == TRUE

\* serde_json::from_str(&line) is Ok (main.rs:92)
FromStrOk(l) == l.kind \in {"other_msg", "bad_entry", "entry"}

\* the discriminator check lets every JSON document through
IsHandledRequest_any(l) == TRUE

\* pre_decoded.get("msg").and_then(as_str).map(== "handled request").unwrap_or(false)
IsHandledRequest(l) == l.kind \in {"bad_entry", "entry"}

\* the strict decode accepts every line that passed the discriminator check
FromValueOk_any(l) == TRUE

\* serde_json::from_value::<LogEntry>(pre_decoded) is Ok (main.rs:114)
FromValueOk(l) == l.kind = "entry"

\* blake3::hash(line.as_bytes()).to_hex().to_string(): injective on the bytes
Blake3Hex(l) == <<"blake3", l.kind, l.bytes>>

----------------------------------------------------------------------------
(* Write tasks.                                                            *)

NoHash == <<"", "", "">>

NoTask == [pc |-> "none", file_id |-> NoHash, res |-> "none", shown |-> 0]

LineNos == 1..MaxLines

\* tasks that were spawned and have not run to their end
Outstanding == {t \in LineNos : tasks[t].pc \notin {"none", "finished", "cancelled"}}

\* tasks that hold an OwnedSemaphorePermit
PermitHolders ==
  {t \in LineNos : tasks[t].pc \in {"exec", "ready", "count_processed", "drop_busy", "drop_permit"}}

\* tasks that hold an OwnedRwLockReadGuard
GuardHolders ==
  {t \in LineNos : tasks[t].pc \in {"exec", "ready", "count_processed", "drop_busy"}}

Dispatched == {t \in LineNos : tasks[t].pc # "none"}

----------------------------------------------------------------------------
(* Synchronisation primitives.                                             *)

\* a runtime with worker threads: a step never waits for another task's section
ThreadFree_multi_thread == TRUE

\* the current_thread runtime polls one future at a time (main.rs:58)
ThreadFree == running = 0

\* the acquire never waits
PermitAvailable_unbounded == TRUE

\* Semaphore::acquire_owned is ready (main.rs:122)
PermitAvailable == permits > 0

\* an exclusive lock in place of the read side: one guard at a time
ReadLockFree_exclusive == readers = 0

\* RwLock::read_owned is ready: no writer holds or waits (main.rs:123);
\* the only writer is the driver itself, after the loop
ReadLockFree == pc # "drain"

\* the drain never waits
WriteLockFree_no_wait == TRUE

\* RwLock::write is ready: no read guard is held (main.rs:193)
WriteLockFree == readers = 0

----------------------------------------------------------------------------
(* The table `logs`.  Its rows are kept by their key (file_id, line_no),   *)
(* the pair `insert ignore` resolves conflicts on.                         *)

\* the first line of f that passes the discriminator check, as a set
FirstMatch(f) ==
  LET m == {n \in 1..Len(f) : IsHandledRequest(f[n])}
  IN  IF m = {} THEN {} ELSE {f[CHOOSE n \in m : \A k \in m : n <= k]}

\* positions of the lines of f that decode into a LogEntry
EntryLines(f) == {n \in 1..Len(f) : f[n].kind = "entry"}

\* rows an earlier import may have left under the keys a run over f writes
EarlierRows(f) == {<<Blake3Hex(l), n>> : l \in FirstMatch(f), n \in EntryLines(f)}

\* before a second run there is no first run to remember
NoPrev == [pc |-> "none", file_id |-> {}, first |-> {}, failed |-> {}]

----------------------------------------------------------------------------
Init ==
  /\ file \in Files
  /\ i = 0
  /\ pc = "read"
  /\ line_no = 0
  /\ file_id = {}
  /\ id_generated = 0
  /\ permits = InsertionConcurrency
  /\ readers = 0
  /\ tasks = [t \in LineNos |-> NoTask]
  /\ running = 0
  /\ store \in SUBSET EarlierRows(file)
  /\ store0 = store
  /\ rows_inserted = 0
  /\ rows_processed = 0
  /\ pb_msg = <<0, 0>>
  /\ errlog = {}
  /\ exit_code = -1
  /\ rerun = FALSE
  /\ prev = NoPrev

----------------------------------------------------------------------------
(* async_main, the per-line loop (main.rs:86-127).                         *)

AtLine == pc = "read" /\ ThreadFree /\ i < Len(file)

CurLine == file[i + 1]

\* the number counts the lines that are not blank
LineNo_nonblank == 1 + Cardinality({n \in 1..i : ~IsEmpty(file[n])})

\* `let line_no = i + 1;` (main.rs:87)
LineNo == i + 1

\* the identity is taken again at every matching line
FileIdAfter_every_line(l) == {Blake3Hex(l)}

\* the identity is the hash of the first line of the file
FileIdAfter_first_line(l) == IF file_id = {} THEN {Blake3Hex(file[1])} ELSE file_id

\* file_id after main.rs:108-111
FileIdAfter(l) == IF file_id = {} THEN {Blake3Hex(l)} ELSE file_id

\* `break` in place of `continue`
Continue_break ==
  /\ i' = i + 1
  /\ pc' = "drain"
  /\ UNCHANGED <<file, line_no, permits, readers, tasks, running, store,
                 rows_inserted, rows_processed, pb_msg, exit_code, rerun, prev, store0>>

\* `continue` (main.rs:90, 96, 105, 118)
Continue ==
  /\ i' = i + 1
  /\ UNCHANGED <<file, pc, line_no, permits, readers, tasks, running, store,
                 rows_inserted, rows_processed, pb_msg, exit_code, rerun, prev, store0>>

\* main.rs:88: `line?` returns the error from async_main; the runtime is
\* dropped and with it every task that has not finished
LineError ==
  /\ AtLine
  /\ LineIsErr(CurLine)
  /\ pc' = "aborted"
  /\ exit_code' = 1
  /\ i' = i + 1
  /\ tasks' = [t \in LineNos |->
                 IF t \in Outstanding THEN [tasks[t] EXCEPT !.pc = "cancelled"]
                 ELSE tasks[t]]
  /\ permits' = permits + Cardinality(PermitHolders)
  /\ readers' = readers - Cardinality(GuardHolders)
  /\ UNCHANGED <<file, line_no, file_id, id_generated, running, store,
                 rows_inserted, rows_processed, pb_msg, errlog, rerun, prev, store0>>

\* main.rs:89-91
SkipEmpty ==
  /\ AtLine
  /\ ~LineIsErr(CurLine)
  /\ IsEmpty(CurLine)
  /\ Continue
  /\ UNCHANGED <<file_id, id_generated, errlog>>

\* the decode error is returned from async_main (`?` in place of the match)
JsonDecodeError_propagates ==
  /\ AtLine
  /\ ~LineIsErr(CurLine)
  /\ ~IsEmpty(CurLine)
  /\ ~FromStrOk(CurLine)
  /\ pc' = "aborted"
  /\ exit_code' = 1
  /\ i' = i + 1
  /\ UNCHANGED <<file, line_no, file_id, id_generated, permits, readers, tasks,
                 running, store, rows_inserted, rows_processed, pb_msg, errlog,
                 rerun, prev, store0>>

\* main.rs:92-98
JsonDecodeError ==
  /\ AtLine
  /\ ~LineIsErr(CurLine)
  /\ ~IsEmpty(CurLine)
  /\ ~FromStrOk(CurLine)
  /\ errlog' = errlog \cup {<<"json decode error", LineNo>>}
  /\ Continue
  /\ UNCHANGED <<file_id, id_generated>>

\* main.rs:99-106
FilterMiss ==
  /\ AtLine
  /\ ~LineIsErr(CurLine)
  /\ ~IsEmpty(CurLine)
  /\ FromStrOk(CurLine)
  /\ ~IsHandledRequest(CurLine)
  /\ Continue
  /\ UNCHANGED <<file_id, id_generated, errlog>>

\* main.rs:108-120, the Err arm of the strict decode
CannotDecodeLog ==
  /\ AtLine
  /\ ~LineIsErr(CurLine)
  /\ ~IsEmpty(CurLine)
  /\ FromStrOk(CurLine)
  /\ IsHandledRequest(CurLine)
  /\ file_id' = FileIdAfter(CurLine)
  /\ id_generated' = IF file_id = {} THEN id_generated + 1 ELSE id_generated
  /\ ~FromValueOk(CurLine)
  /\ errlog' = errlog \cup {<<"cannot decode log", LineNo>>}
  /\ Continue

\* main.rs:108-122, up to the await of acquire_owned
AcceptEntry ==
  /\ AtLine
  /\ ~LineIsErr(CurLine)
  /\ ~IsEmpty(CurLine)
  /\ FromStrOk(CurLine)
  /\ IsHandledRequest(CurLine)
  /\ file_id' = FileIdAfter(CurLine)
  /\ id_generated' = IF file_id = {} THEN id_generated + 1 ELSE id_generated
  /\ FromValueOk(CurLine)
  /\ line_no' = LineNo
  /\ i' = i + 1
  /\ pc' = "acquire"
  /\ UNCHANGED <<file, permits, readers, tasks, running, store, rows_inserted,
                 rows_processed, pb_msg, errlog, exit_code, rerun, prev, store0>>

\* main.rs:122: acquire_owned().await returns
AcquirePermit ==
  /\ pc = "acquire"
  /\ ThreadFree
  /\ PermitAvailable
  /\ permits' = permits - 1
  /\ pc' = "read_owned"
  /\ UNCHANGED <<file, i, line_no, file_id, id_generated, readers, tasks, running,
                 store, rows_inserted, rows_processed, pb_msg, errlog, exit_code,
                 rerun, prev, store0>>

\* the permit is not moved into the task: it is dropped at the spawn
Spawn_drops_permit ==
  /\ pc = "read_owned"
  /\ ThreadFree
  /\ ReadLockFree
  /\ readers' = readers + 1
  /\ permits' = permits + 1
  /\ tasks' = [tasks EXCEPT ![line_no] =
                 [pc |-> "exec", file_id |-> CHOOSE h \in file_id : TRUE,
                  res |-> "none", shown |-> 0]]
  /\ pc' = "read"
  /\ UNCHANGED <<file, i, line_no, file_id, id_generated, running, store,
                 rows_inserted, rows_processed, pb_msg, errlog, exit_code, rerun,
                 prev, store0>>

\* main.rs:123-127: read_owned().await returns, the task is spawned with the
\* permit, the guard, line_no and the clone of file_id (main.rs:112)
Spawn ==
  /\ pc = "read_owned"
  /\ ThreadFree
  /\ ReadLockFree
  /\ readers' = readers + 1
  /\ tasks' = [tasks EXCEPT ![line_no] =
                 [pc |-> "exec", file_id |-> CHOOSE h \in file_id : TRUE,
                  res |-> "none", shown |-> 0]]
  /\ pc' = "read"
  /\ UNCHANGED <<file, i, line_no, file_id, id_generated, permits, running, store,
                 rows_inserted, rows_processed, pb_msg, errlog, exit_code, rerun, prev, store0>>

\* end of the loop: the driver goes on to insertion_busy.write() (main.rs:193)
EndOfInput ==
  /\ pc = "read"
  /\ ThreadFree
  /\ i = Len(file)
  /\ pc' = "drain"
  /\ UNCHANGED <<file, i, line_no, file_id, id_generated, permits, readers, tasks,
                 running, store, rows_inserted, rows_processed, pb_msg, errlog,
                 exit_code, rerun, prev, store0>>

\* main.rs:193: insertion_busy.write().await returns (the guard is a temporary)
Drain ==
  /\ pc = "drain"
  /\ ThreadFree
  /\ WriteLockFree
  /\ pc' = "drained"
  /\ UNCHANGED <<file, i, line_no, file_id, id_generated, permits, readers, tasks,
                 running, store, rows_inserted, rows_processed, pb_msg, errlog,
                 exit_code, rerun, prev, store0>>

\* main.rs:194-197: pb.finish(), "Success.", Ok(())
Success ==
  /\ pc = "drained"
  /\ ThreadFree
  /\ pc' = "done"
  /\ exit_code' = 0
  /\ UNCHANGED <<file, i, line_no, file_id, id_generated, permits, readers, tasks,
                 running, store, rows_inserted, rows_processed, pb_msg, errlog,
                 rerun, prev, store0>>

----------------------------------------------------------------------------
(* The write task (main.rs:127-191).                                       *)

Key(t) == <<tasks[t].file_id, t>>

\* a statement that reports one affected row whether or not the key exists
RowsAffected_always_one(k) == "ok1"

\* `insert ignore into logs`: rows_affected of the statement for key k
RowsAffected(k) == IF k \in store THEN "ok0" ELSE "ok1"

\* main.rs:128-166: the store answers the statement, or fails it
Execute(t) ==
  /\ tasks[t].pc = "exec"
  /\ \E fails \in BOOLEAN :
       IF fails
       THEN /\ tasks' = [tasks EXCEPT ![t].pc = "ready", ![t].res = "err"]
            /\ UNCHANGED store
       ELSE /\ tasks' = [tasks EXCEPT ![t].pc = "ready", ![t].res = RowsAffected(Key(t))]
            /\ store' = store \cup {Key(t)}
  /\ UNCHANGED <<file, i, pc, line_no, file_id, id_generated, permits, readers,
                 running, rows_inserted, rows_processed, pb_msg, errlog, exit_code,
                 rerun, prev, store0>>

\* the counter is incremented whatever rows_affected says
InsertedAfter_counts_all(r) == rows_inserted + 1

\* rows_inserted after main.rs:170-176 for result r
InsertedAfter(r) == IF r = "ok0" THEN rows_inserted ELSE rows_inserted + 1

\* main.rs:168-176: the task is polled with Ok(res)
CountInserted(t) ==
  /\ tasks[t].pc = "ready"
  /\ tasks[t].res \in {"ok0", "ok1"}
  /\ ThreadFree
  /\ running' = t
  /\ rows_inserted' = InsertedAfter(tasks[t].res)
  /\ tasks' = [tasks EXCEPT ![t].pc = "count_processed",
                            ![t].shown = InsertedAfter(tasks[t].res)]
  /\ UNCHANGED <<file, i, pc, line_no, file_id, id_generated, permits, readers,
                 store, rows_processed, pb_msg, errlog, exit_code, rerun, prev, store0>>

\* main.rs:177-182
CountProcessed(t) ==
  /\ running = t
  /\ tasks[t].pc = "count_processed"
  /\ rows_processed' = rows_processed + 1
  /\ pb_msg' = <<tasks[t].shown, rows_processed + 1>>
  /\ tasks' = [tasks EXCEPT ![t].pc = "drop_busy"]
  /\ UNCHANGED <<file, i, pc, line_no, file_id, id_generated, permits, readers,
                 running, store, rows_inserted, errlog, exit_code, rerun, prev, store0>>

\* rows_processed after the Err arm (main.rs:184-186)
ProcessedAfterErr == rows_processed

\* the Err arm ends the process
WriteFailed_exits(t) ==
  /\ tasks[t].pc = "ready"
  /\ tasks[t].res = "err"
  /\ ThreadFree
  /\ pc' = "aborted"
  /\ exit_code' = 1
  /\ errlog' = errlog \cup {<<"failed to insert log entry", t>>}
  /\ UNCHANGED <<file, i, line_no, file_id, id_generated, permits, readers, tasks,
                 running, store, rows_inserted, rows_processed, pb_msg, rerun, prev, store0>>

\* main.rs:184-186: the task is polled with Err(e)
WriteFailed(t) ==
  /\ tasks[t].pc = "ready"
  /\ tasks[t].res = "err"
  /\ ThreadFree
  /\ running' = t
  /\ errlog' = errlog \cup {<<"failed to insert log entry", t>>}
  /\ rows_processed' = ProcessedAfterErr
  /\ tasks' = [tasks EXCEPT ![t].pc = "drop_busy"]
  /\ UNCHANGED <<file, i, pc, line_no, file_id, id_generated, permits, readers,
                 store, rows_inserted, pb_msg, exit_code, rerun, prev, store0>>

\* main.rs:189
DropBusy(t) ==
  /\ running = t
  /\ tasks[t].pc = "drop_busy"
  /\ readers' = readers - 1
  /\ tasks' = [tasks EXCEPT ![t].pc = "drop_permit"]
  /\ UNCHANGED <<file, i, pc, line_no, file_id, id_generated, permits, running,
                 store, rows_inserted, rows_processed, pb_msg, errlog, exit_code,
                 rerun, prev, store0>>

\* the task ends without giving its permit back
DropPermit_leaks(t) ==
  /\ running = t
  /\ tasks[t].pc = "drop_permit"
  /\ tasks' = [tasks EXCEPT ![t].pc = "finished"]
  /\ running' = 0
  /\ UNCHANGED <<file, i, pc, line_no, file_id, id_generated, permits, readers, store,
                 rows_inserted, rows_processed, pb_msg, errlog, exit_code, rerun, prev, store0>>

\* main.rs:190-191: the permit is dropped and the task ends
DropPermit(t) ==
  /\ running = t
  /\ tasks[t].pc = "drop_permit"
  /\ permits' = permits + 1
  /\ tasks' = [tasks EXCEPT ![t].pc = "finished"]
  /\ running' = 0
  /\ UNCHANGED <<file, i, pc, line_no, file_id, id_generated, readers, store,
                 rows_inserted, rows_processed, pb_msg, errlog, exit_code, rerun, prev, store0>>

----------------------------------------------------------------------------
Driver ==
  \/ LineError
  \/ SkipEmpty
  \/ JsonDecodeError
  \/ FilterMiss
  \/ CannotDecodeLog
  \/ AcceptEntry
  \/ AcquirePermit
  \/ Spawn
  \/ EndOfInput
  \/ Drain
  \/ Success

WriteTask(t) ==
  \/ Execute(t)
  \/ CountInserted(t)
  \/ CountProcessed(t)
  \/ WriteFailed(t)
  \/ DropBusy(t)
  \/ DropPermit(t)

Next == Driver \/ \E t \in LineNos : WriteTask(t)

Spec == Init /\ [][Next]_vars

\* the runtime keeps polling the driver and every task that is ready, and the
\* store answers every statement it was sent
FairSpec == Spec /\ WF_vars(Driver) /\ \A t \in LineNos : WF_vars(WriteTask(t))

----------------------------------------------------------------------------
(* A second run of the program.  async_main starts again from main.rs:65   *)
(* with fresh locals; the table is whatever the caller hands it.           *)

\* the first of two runs starts on the empty table the migration creates
InitFresh == Init /\ store = {}

Ended == pc \in {"done", "aborted"}

\* writes of this run that left no row: failed, or dropped before the answer
Lost == {t \in Dispatched : tasks[t].res \notin {"ok0", "ok1"}}

Restart(f, rows) ==
  /\ file' = f
  /\ i' = 0
  /\ pc' = "read"
  /\ line_no' = 0
  /\ file_id' = {}
  /\ id_generated' = 0
  /\ permits' = InsertionConcurrency
  /\ readers' = 0
  /\ tasks' = [t \in LineNos |-> NoTask]
  /\ running' = 0
  /\ store' = rows
  /\ store0' = rows
  /\ rows_inserted' = 0
  /\ rows_processed' = 0
  /\ pb_msg' = <<0, 0>>
  /\ errlog' = {}
  /\ exit_code' = -1
  /\ rerun' = TRUE

\* the same file is imported again into the table the first run filled
Reingest ==
  /\ Ended
  /\ ~rerun
  /\ prev' = [pc |-> pc, file_id |-> file_id, first |-> FirstMatch(file), failed |-> Lost]
  /\ Restart(file, store)

NextReingest == Next \/ Reingest

SpecReingest == InitFresh /\ [][NextReingest]_vars

\* the process exits: its memory is gone, the table and the identity it logged
\* ("generated file id", main.rs:110) remain
Exit ==
  /\ Ended
  /\ ~rerun
  /\ prev' = [pc |-> pc, file_id |-> file_id, first |-> FirstMatch(file), failed |-> {}]
  /\ file' = <<>>
  /\ pc' = "exited"
  /\ i' = 0
  /\ line_no' = 0
  /\ file_id' = {}
  /\ id_generated' = 0
  /\ permits' = InsertionConcurrency
  /\ readers' = 0
  /\ tasks' = [t \in LineNos |-> NoTask]
  /\ rows_inserted' = 0
  /\ rows_processed' = 0
  /\ pb_msg' = <<0, 0>>
  /\ errlog' = {}
  /\ UNCHANGED <<running, store, store0, exit_code, rerun>>

\* another file is imported, into an emptied table
IngestOther ==
  /\ pc = "exited"
  /\ UNCHANGED prev
  /\ \E f \in Files : Restart(f, {})

NextOther == Next \/ Exit \/ IngestOther

SpecOther == InitFresh /\ [][NextOther]_vars

----------------------------------------------------------------------------
(* Properties.                                                             *)

\* the driver holds a permit of its own between acquire_owned and the spawn
DriverPermit == IF pc = "read_owned" THEN 1 ELSE 0

\* tasks whose statement the store answered with Ok
Answered == {t \in Dispatched : tasks[t].res \in {"ok0", "ok1"}}

\* tasks that are past the update of rows_inserted (main.rs:170-176)
PastCount == {t \in LineNos : tasks[t].pc \in {"count_processed", "drop_busy", "drop_permit", "finished"}}

\* C1: at every moment the write tasks that hold a permit are at most the
\* limit of the semaphore; the permits out (tasks' and the driver's own) and
\* the permits left always add up to the limit, and the count never goes
\* below zero.
C1_ConcurrencyBound ==
  /\ Cardinality(PermitHolders) <= InsertionConcurrency
  /\ permits >= 0
  /\ permits + Cardinality(PermitHolders) + DriverPermit = InsertionConcurrency

\* the semaphore is saturated and the driver waits for a permit
C1_Saturated ==
  /\ pc = "acquire"
  /\ permits = 0
  /\ Cardinality(PermitHolders) = InsertionConcurrency

\* C2: success is reported (exit code 0) only in the state after the drain
\* returned, and once the drain has returned every task spawned during the
\* loop has run to its end: its statement was answered or failed, its stats
\* update is done and it holds neither guard nor permit.
C2_SuccessAfterDrain ==
  /\ exit_code = 0 => pc = "done"
  /\ pc \in {"drained", "done"} =>
       /\ \A t \in Dispatched : tasks[t].pc = "finished" /\ tasks[t].res # "none"
       /\ rows_processed = Cardinality(Answered)
       /\ readers = 0

\* success was reported after two writes were spawned
C2_SuccessWithWrites ==
  /\ pc = "done"
  /\ exit_code = 0
  /\ Cardinality(Dispatched) >= 2

\* C3: once the drain has returned, rows_processed equals the number of
\* dispatched writes, whatever their outcomes.
C3_ProcessedCountsEveryAttempt ==
  pc \in {"drained", "done"} => rows_processed = Cardinality(Dispatched)

C5_ProcessedAtLeastInserted ==
  /\ running = 0 => rows_processed >= rows_inserted
  /\ pb_msg[2] >= pb_msg[1]

\* both branches of main.rs:170-176 were taken and the counters differ
C5_BothBranchesCounted ==
  /\ running = 0
  /\ rows_inserted >= 1
  /\ rows_processed > rows_inserted

\* the lines the loop has gone through
Consumed == 1..i

\* the record the driver is dispatching (between AcceptEntry and Spawn)
Pending == IF pc \in {"acquire", "read_owned"} THEN {line_no} ELSE {}

\* C6: the writes dispatched, with the one being dispatched, are exactly the
\* well-formed records among the lines the loop has gone through, one task
\* per record under its own line number; no permit is out for any other
\* line; and a run that reaches the end of the input has dispatched one
\* write per well-formed record of the file.
C6_OneWritePerRecord ==
  /\ Dispatched \cup Pending = {n \in Consumed : file[n].kind = "entry"}
  /\ Dispatched \cap Pending = {}
  /\ InsertionConcurrency - permits <= Cardinality(Dispatched \cup Pending)
  /\ pc \in {"drain", "drained", "done"} =>
       Cardinality(Dispatched) = Cardinality(EntryLines(file))

\* a run ended over a file that holds a record, a record that does not
\* decode and a third line that is no record
C6_MixedFileDone ==
  /\ pc = "done"
  /\ Dispatched # {}
  /\ \E n \in 1..Len(file) : file[n].kind = "bad_entry"
  /\ \E n \in 1..Len(file) : file[n].kind \in {"empty", "bad_json", "other_msg"}

\* some write of this run failed at the store
SomeWriteFailed == \E t \in LineNos : tasks[t].res = "err"

\* C7: a write that fails gives back its guard and its permit (when no task
\* is outstanding and the driver holds nothing, all permits are free and no
\* guard is held), it never adds to rows_inserted, and it never stops the
\* run: the run is aborted only at a line that cannot be read, and after a
\* failure the run either has ended or can take a further step, the drain
\* included, up to success with every line gone through.
C7_WriteFailureIsLocal ==
  /\ rows_inserted = Cardinality({t \in PastCount : tasks[t].res = "ok1"})
  /\ (Outstanding = {} /\ DriverPermit = 0) =>
       permits = InsertionConcurrency /\ readers = 0
  /\ pc = "aborted" => file[i].kind = "io_error"
  /\ SomeWriteFailed =>
       /\ pc \in {"done", "aborted"} \/ ENABLED Next
       /\ pc = "done" => exit_code = 0 /\ i = Len(file)

\* a run ended with success although a write failed before its last line
C7_SuccessAfterFailure ==
  /\ pc = "done"
  /\ exit_code = 0
  /\ \E t \in LineNos : tasks[t].res = "err" /\ t < Len(file)
  /\ rows_inserted >= 1

\* what C8 says of a state: one "generated file id" event at most; the
\* identity is the hash of the first line that passed the discriminator
\* check; every write carries it
C8_State ==
  /\ id_generated <= 1
  /\ file_id # {} <=> id_generated = 1
  /\ file_id = {Blake3Hex(l) : l \in FirstMatch(SubSeq(file, 1, i))}
  /\ \A t \in Dispatched : tasks[t].file_id \in file_id

\* what C8 says of a step: an identity, once set, stays
C8_Step == file_id # {} => file_id' = file_id

C10_BadJsonStep ==
  /\ pc = "read"
  /\ running = 0
  /\ i < Len(file)
  /\ file[i + 1].kind = "bad_json"
  /\ i' = i + 1

\* C10: going through a line of malformed JSON changes neither counter, the
\* table, the identity, the permits, the guards nor any task; the loop stays
\* in Reading with the process running, one line further, so that the lines
\* after it are read under their own numbers from the state any other line
\* that does not match would have left.
C10_BadJsonFrame ==
  [][C10_BadJsonStep =>
       /\ UNCHANGED <<file, line_no, file_id, id_generated, permits, readers, tasks,
                      running, store, rows_inserted, rows_processed, pb_msg>>
       /\ pc' = "read"
       /\ exit_code' = -1]_vars

\* a record after a line of malformed JSON was written under its own number
C10_RecordAfterBadJson ==
  /\ pc = "done"
  /\ \E m \in 1..Len(file) : \E n \in 1..Len(file) :
       /\ m < n
       /\ file[m].kind = "bad_json"
       /\ file[n].kind = "entry"
       /\ tasks[n].pc = "finished"
       /\ <<tasks[n].file_id, n>> \in store

\* tasks that are past the update of rows_processed (main.rs:177)
PastProcessed == {t \in LineNos : tasks[t].pc \in {"drop_busy", "drop_permit", "finished"}
                                   /\ tasks[t].res \in {"ok0", "ok1"}}

\* the loop goes through a line that is JSON without the discriminator
C11_FilterMissStep ==
  /\ pc = "read"
  /\ running = 0
  /\ i < Len(file)
  /\ file[i + 1].kind = "other_msg"
  /\ i' = i + 1

\* what C11 says of a state: no diagnostic carries the number of such a
\* line, no write was dispatched for one, and rows_processed counts only
\* writes, each dispatched for a record
C11_State ==
  /\ \A e \in errlog : file[e[2]].kind # "other_msg"
  /\ \A t \in Dispatched \cup Pending : file[t].kind # "other_msg"
  /\ rows_processed = Cardinality(PastProcessed)

\* C11: a line that is valid JSON but has no "msg" equal to "handled
\* request" is gone through without a diagnostic and without a change of
\* rows_processed, and is never counted later: the counter counts writes
\* only, and no write and no diagnostic ever belongs to such a line.
C11_FilterMissSilent ==
  /\ []C11_State
  /\ [][C11_FilterMissStep => UNCHANGED <<errlog, rows_processed, tasks, permits>>]_vars

\* a run ended with a counted write and a diagnostic, over a file that
\* holds a line without the discriminator
C11_FilterMissSeen ==
  /\ pc = "done"
  /\ \E n \in 1..Len(file) : file[n].kind = "other_msg"
  /\ rows_processed >= 1
  /\ errlog # {}

\* a file of three lines: one record, one of malformed JSON, one without
\* the discriminator, in any order
ThreeLineScenario ==
  /\ Len(file) = 3
  /\ \A k \in {"entry", "bad_json", "other_msg"} : \E n \in 1..3 : file[n].kind = k

\* C12: over a file of three lines (a record, malformed JSON, JSON without
\* the discriminator, in any order) and a table that was empty and answers
\* the write, the run is never aborted and ends with rows_processed = 1,
\* rows_inserted = 1, exit code 0 and one diagnostic, the json decode error
\* of the malformed line.
C12_ThreeLineRun ==
  (ThreeLineScenario /\ store0 = {}) =>
    /\ pc # "aborted"
    /\ exit_code \in {-1, 0}
    /\ (pc = "done" /\ Lost = {}) =>
         /\ rows_processed = 1
         /\ rows_inserted = 1
         /\ exit_code = 0
         /\ errlog = {<<"json decode error", n>> : n \in {m \in 1..3 : file[m].kind = "bad_json"}}
         /\ Cardinality(errlog) = 1

\* the scenario ended, with the malformed line first and the record last
C12_ScenarioDone ==
  /\ ThreeLineScenario
  /\ store0 = {}
  /\ pc = "done"
  /\ Lost = {}
  /\ file[1].kind = "bad_json"
  /\ file[3].kind = "entry"

\* no line of the file is unreadable
Readable == \A n \in 1..Len(file) : file[n].kind # "io_error"

\* C13 (as amended): the only error that leaves the pipeline is the read
\* error of a line (main.rs:88): the exit code is nonzero only in a run
\* aborted at an unreadable line; no decode error and no failed write ends
\* the run, which over a readable file is never aborted, can always take a
\* further step until it is done, and is done only after the drain, with
\* every line gone through and exit code 0.
C13_OnlyReadErrorsPropagate ==
  /\ exit_code = 1 <=> pc = "aborted"
  /\ pc = "aborted" => file[i].kind = "io_error"
  /\ Readable => pc # "aborted" /\ (pc = "done" \/ ENABLED Next)
  /\ pc = "done" => exit_code = 0 /\ i = Len(file) /\ Outstanding = {}

\* a run ended with success after a decode error and a failed write
C13_ErrorsRecovered ==
  /\ pc = "done"
  /\ exit_code = 0
  /\ \E e \in errlog : e[1] = "failed to insert log entry"
  /\ \E e \in errlog : e[1] \in {"json decode error", "cannot decode log"}

\* C13 (as stated): after startup no error leaves the pipeline: the exit
\* code is never nonzero.
C13_AsStated == exit_code # 1

\* the driver is in the per-line loop
Reading == pc \in {"read", "acquire", "read_owned"}

\* C14: in the loop, whenever the thread is free for the driver, the driver
\* can take its next step (read a line, take a permit, take the read guard
\* and spawn) whatever the writes in flight, except when it waits at
\* acquire_owned with every permit held: it is never held up by a single
\* write, and the read guard never makes it wait.
C14_DriverOnlyWaitsForPermits ==
  (Reading /\ running = 0) =>
    \/ ENABLED Driver
    \/ /\ pc = "acquire"
       /\ permits = 0
       /\ Cardinality(PermitHolders) = InsertionConcurrency

\* the driver is about to read a line while two statements are in flight
C14_ReadingWhileInFlight ==
  /\ pc = "read"
  /\ i < Len(file)
  /\ running = 0
  /\ Cardinality({t \in LineNos : tasks[t].pc = "exec"}) >= 2

\* C15: when the drain has returned, every permit is back in the semaphore:
\* the count is the limit and no task holds one.
C15_PermitsBackAfterDrain ==
  pc \in {"drained", "done"} =>
    /\ permits = InsertionConcurrency
    /\ PermitHolders = {}

\* the drain returned after the semaphore had been saturated: more writes
\* than permits were dispatched
C15_DrainedAfterSaturation ==
  /\ pc = "drained"
  /\ Cardinality(Dispatched) > InsertionConcurrency
  /\ permits = InsertionConcurrency

\* tasks whose statement is with the store
InFlight == {t \in LineNos : tasks[t].pc = "exec"}

\* what C16 says of a state: the statements in flight are at most the
\* permits that are out, hence at most the limit
C16_State ==
  /\ Cardinality(InFlight) <= InsertionConcurrency - permits
  /\ Cardinality(InFlight) <= InsertionConcurrency

\* what C16 says of a step: a task is spawned by a driver that holds a
\* permit and hands it over (the count does not move); in a run that goes
\* on, the count goes up only by one, when a task whose statement was
\* answered or failed, and whose stats are updated if it was answered, ends
C16_Step ==
  /\ \A t \in LineNos :
       (tasks[t].pc = "none" /\ tasks'[t].pc # "none") =>
         pc = "read_owned" /\ permits' = permits /\ permits < InsertionConcurrency
  /\ (permits' > permits /\ pc' # "aborted") =>
       /\ permits' = permits + 1
       /\ \E t \in LineNos :
            /\ tasks[t].pc = "drop_permit"
            /\ tasks'[t].pc = "finished"
            /\ tasks[t].res # "none"
            /\ tasks[t].res \in {"ok0", "ok1"} => rows_processed >= 1

\* C16: a write task holds its permit for its whole life: the permit is
\* taken before the spawn and given back only at the task's end, after the
\* store's answer and the stats update, so the statements in flight never
\* exceed the limit.
C16_PermitForWholeLife == []C16_State /\ [][C16_Step]_vars

\* the statements in flight are at the limit, with a permit taken a second
\* time after an earlier task gave it back
C16_LimitInFlightAgain ==
  /\ Cardinality(InFlight) = InsertionConcurrency
  /\ permits = 0
  /\ \E t \in LineNos : tasks[t].pc = "finished"

\* C17 (as amended): under fair scheduling, with a store that answers every
\* statement, every run ends: it reaches Done, or it is aborted at a line
\* that cannot be read; over a readable file it is never aborted, so it
\* reaches Done.  The driver is never blocked for ever at acquire_owned,
\* read_owned or the drain.
C17_RunEnds ==
  /\ <>(pc \in {"done", "aborted"})
  /\ [](pc = "aborted" => ~Readable)

\* a run reached Done although the driver had to wait for a permit: every
\* line of the longest file was a record
C17_DoneAfterWaiting ==
  /\ pc = "done"
  /\ Len(file) = MaxLines
  /\ Cardinality(Dispatched) = MaxLines
  /\ Cardinality(Dispatched) > InsertionConcurrency

\* C17 (as stated): every run that passed startup goes on until it reaches
\* Done: a state that is not Done has a next step.
C17_AsStated == pc = "done" \/ ENABLED Next

\* C18: the line number of a write is the 1-based position of its line in
\* the file, blank and skipped lines counted: the record being dispatched
\* carries the position of the line just read, every write sits under the
\* position of a record of the file, every row this run added has the run's
\* identity and such a position, and the writes dispatched have as many
\* distinct keys as there are records dispatched.
C18_LineNoIsPosition ==
  /\ Pending # {} => line_no = i /\ file[line_no].kind = "entry"
  /\ \A t \in Dispatched : t <= i /\ file[t].kind = "entry" /\ tasks[t].file_id \in file_id
  /\ \A k \in store \ store0 : k[1] \in file_id /\ k[2] \in Dispatched
  /\ Cardinality({Key(t) : t \in Dispatched})
       = Cardinality({n \in 1..i : file[n].kind = "entry"} \ Pending)

\* a blank first line, then two records written under the numbers 2 and 3
C18_WritesAfterBlankLine ==
  /\ Len(file) = 3
  /\ file[1].kind = "empty"
  /\ tasks[2].pc = "finished"
  /\ tasks[3].pc = "finished"
  /\ Key(2) # Key(3)
  /\ {Key(2), Key(3)} \subseteq store \ store0

\* writes the store answered with one row affected
InsertedWrites == {t \in Dispatched : tasks[t].res = "ok1"}

\* rows this run has added to the table
RowsAdded == store \ store0

\* the counter matches the writes that were answered "one row affected" and
\* are past the increment; those writes are the rows added, one each
C19_State ==
  /\ rows_inserted = Cardinality(InsertedWrites \cap PastCount)
  /\ RowsAdded = {Key(t) : t \in InsertedWrites}
  /\ Cardinality(RowsAdded) = Cardinality(InsertedWrites)
  /\ \A t \in Dispatched : tasks[t].res = "ok0" => Key(t) \in store0
  /\ rows_inserted <= Cardinality(RowsAdded)
  /\ pc \in {"drained", "done"} => rows_inserted = Cardinality(RowsAdded)

\* rows_inserted moves by one, in the step of a task that was answered
\* "one row affected"
C19_Step ==
  rows_inserted' # rows_inserted =>
    /\ rows_inserted' = rows_inserted + 1
    /\ \E t \in LineNos :
         /\ tasks[t].pc = "ready"
         /\ tasks[t].res = "ok1"
         /\ tasks'[t].pc = "count_processed"

\* C19 (as amended): rows_inserted is incremented only by a write whose
\* outcome is Inserted, never on AlreadyPresent or Failed; a row is in the
\* table before its task counts it, so rows_inserted is at most the number of
\* rows this run has added, and equals it once drain has returned; each row
\* added answers one write, under its own key.
C19_InsertedCountsAddedRows == []C19_State /\ [][C19_Step]_vars

\* a run ended with one write Inserted, one AlreadyPresent and one Failed
C19_AllOutcomesDone ==
  /\ pc = "done"
  /\ rows_inserted = 1
  /\ \E t \in LineNos : tasks[t].res = "ok1"
  /\ \E t \in LineNos : tasks[t].res = "ok0"
  /\ \E t \in LineNos : tasks[t].res = "err"

\* C19 (as stated): at every point of a run rows_inserted equals the number
\* of rows this run has added to the store.
C19_AsStated == rows_inserted = Cardinality(store \ store0)

\* writes the store failed
FailedWrites == {t \in LineNos : tasks[t].res = "err"}

\* rows a run over f leaves when the store fails the writes of the lines in bad
RowsWritten(f, bad) ==
  {<<Blake3Hex(l), n>> : l \in FirstMatch(f), n \in EntryLines(f) \ bad}

\* C20: once drain has returned every write task has run to its end, and the
\* table and both counters are functions of the input file, the table the
\* run started from and the writes the store failed: the order in which the
\* tasks completed is no part of them.
C20_OutcomeIndependentOfOrder ==
  pc \in {"drained", "done"} =>
    /\ \A t \in Dispatched : tasks[t].pc = "finished"
    /\ store = store0 \cup RowsWritten(file, FailedWrites)
    /\ rows_processed = Cardinality(EntryLines(file) \ FailedWrites)
    /\ rows_inserted = Cardinality(RowsWritten(file, FailedWrites) \ store0)

\* a run ended whose second write was counted before its first
C20_CompletedOutOfOrder ==
  /\ pc = "done"
  /\ tasks[1].res = "ok1"
  /\ tasks[2].res = "ok1"
  /\ tasks[2].shown < tasks[1].shown

====
